---- MODULE Spec2Model ----
(***************************************************************************)
(* TestStrays._test_throttling of tasks/mds_strays.py: the polling loop    *)
(* that watches the MDS stray-purge counters, its deadline, its            *)
(* high-water-mark heuristic and its final-state assertions.               *)
(*                                                                         *)
(* The system under test (the MDS) is the environment: every 'perf dump'   *)
(* returns an arbitrary snapshot of the mds_cache counters, or fails.      *)
(* The runner calls test_ops_throttle and test_files_throttle once each,   *)
(* in either order, against the same MDS configuration.                    *)
(* The file is Python 2 (dict.values()[0] at line 141), so '/' on two      *)
(* ints is floor division.                                                 *)
(***************************************************************************)
EXTENDS Integers, Sequences, FiniteSets, TLC

\* ---------------------------------------------------------------- bounds
\* Largest value the limit under test takes in the initial configuration.
MaxLimit == 2
\* purge_timeout of line 63, scaled down: the code sets 600, and reads it only
\* in the comparison elapsed >= purge_timeout.
purge_timeout == 2

\* ------------------------------------------------------ program constants
OPS_THROTTLE == 1
FILES_THROTTLE == 2
total_inodes == 401
\* The value set_conf writes to the limit that is not under test.
Lifted == 100000000

\* ------------------------------------------------------------ input sets
\* The limit under test as configured before the test: at least 1.
Limits == 1..MaxLimit
\* In-flight counters the MDS may report: idle, one in flight, at the largest
\* limit and one above it.
Counts == {0, 1, MaxLimit, MaxLimit + 1}
Flags == {0, 1}
Totals == {total_inodes - 2, total_inodes - 1, total_inodes, total_inodes + 1}

\* self.fs.mds_asok(['perf', 'dump'])['mds_cache'] as the while loop may read it.
\* The loop tests num_strays_purging, num_purge_ops and strays_purged; it only
\* logs num_strays and strays_created and never reads num_strays_delayed, so
\* those three are held at one value here.  num_strays_purging may also be
\* above the lifted limit, the only value the test of lines 89-92 can catch.
LoopSnapshots ==
    [num_strays : {1}, num_strays_purging : Counts \cup {Lifted + 1},
     num_strays_delayed : {0},
     num_purge_ops : Counts, strays_created : {total_inodes},
     strays_purged : Totals]

\* What the final assertions want to read.
Drained ==
    [num_strays |-> 0, num_strays_purging |-> 0, num_strays_delayed |-> 0,
     num_purge_ops |-> 0, strays_created |-> total_inodes,
     strays_purged |-> total_inodes]

\* The same dump as the final assertions may read it: each counter is either
\* at the value assertEqual wants or off it, at most two of them off.
FinalSnapshots ==
    {s \in [num_strays : Flags, num_strays_purging : Flags,
            num_strays_delayed : Flags, num_purge_ops : Flags,
            strays_created : {total_inodes - 1, total_inodes},
            strays_purged : {total_inodes - 1, total_inodes}] :
        Cardinality({f \in DOMAIN s : s[f] # Drained[f]}) <= 2}

\* mdc_stats before its first assignment.
NoStats ==
    [num_strays |-> -1, num_strays_purging |-> -1, num_strays_delayed |-> -1,
     num_purge_ops |-> -1, strays_created |-> -1, strays_purged |-> -1]

NoError == [type |-> "none", args |-> <<>>]

VARIABLES
    pc,                  \* position in _test_throttling
    throttle_type,       \* argument of _test_throttling
    conf,                \* the MDS configuration: [ops, files]
    mds_max_purge_ops,   \* locals of _test_throttling
    mds_max_purge_files,
    elapsed,
    files_high_water,
    ops_high_water,
    mdc_stats,
    raised,              \* the exception that ended the test, or NoError
    nsamples,            \* history: snapshots taken by the while loop
    seen_files,          \* history: num_strays_purging values read at line 73
    seen_ops,            \* history: num_purge_ops values read at line 74
    log,                 \* history: the steps of this call, in order
    ran                  \* the test methods entered so far

vars == <<pc, throttle_type, conf, mds_max_purge_ops, mds_max_purge_files,
          elapsed, files_high_water, ops_high_water, mdc_stats, raised,
          nsamples, seen_files, seen_ops, log, ran>>

locals == <<mds_max_purge_ops, mds_max_purge_files, elapsed,
            files_high_water, ops_high_water, mdc_stats>>
history == <<nsamples, seen_files, seen_ops>>

\* ------------------------------------------------------------- operators
max(a, b) == IF a >= b THEN a ELSE b

SetMax(S) == CHOOSE m \in S : \A x \in S : x <= m

\* Mutant: the branches of lines 28-31 name each other's setting.
LiftedKey_Swapped(tt) ==
    IF tt = OPS_THROTTLE THEN "mds_max_purge_ops" ELSE "mds_max_purge_files"

\* lines 28-31: the setting that is NOT under test.
LiftedKey(tt) ==
    IF tt = OPS_THROTTLE THEN "mds_max_purge_files" ELSE "mds_max_purge_ops"

\* Mutant: the write is undone by the time the call that made it ends.
set_conf_Scoped(c, key, value) == c

\* self.set_conf('mds', key, value) of lines 29 and 31.
set_conf(c, key, value) == [c EXCEPT ![key] = value]

\* Mutant: the running maximum forgets what it held.
HighWater_Last(hw, v) == v

\* lines 76-77
HighWater(hw, v) == max(hw, v)

\* Mutant: the deadline test is off by one.
TimedOut_Late(e) == e > purge_timeout

\* line 69
TimedOut(e) == e >= purge_timeout

\* Mutants: the completion test accepts an overshoot / an undershoot.
PurgeComplete_Ge(s) == s.strays_purged >= total_inodes
PurgeComplete_Le(s) == s.strays_purged <= total_inodes

\* line 82
PurgeComplete(s) == s.strays_purged = total_inodes

\* Mutant: the overshoot test is off by one.
SawMoreStrays_Off(s) == s.strays_purged > total_inodes + 1

\* line 85
SawMoreStrays(s) == s.strays_purged > total_inodes

\* lines 88-97: both branches compare num_strays_purging with mds_max_purge_files.
ViolatesThreshold(tt, s, max_ops, max_files) ==
    IF tt = OPS_THROTTLE
    THEN s.num_strays_purging > max_files
    ELSE s.num_strays_purging > max_files

\* lines 90-92 and 95-97: what the RuntimeError's message is formatted from.
ThresholdArgs(tt, s, max_ops, max_files) ==
    IF tt = OPS_THROTTLE
    THEN <<"num_purge_ops", s.num_purge_ops, max_ops>>
    ELSE <<"num_strays_purging", s.num_strays_purging, max_files>>

\* Mutant: the files branch tests the ops high-water mark, as its message does.
HighWaterLow_Ops(tt, ops_hw, files_hw, max_ops, max_files) ==
    IF tt = OPS_THROTTLE
    THEN ops_hw < max_ops \div 2
    ELSE ops_hw < max_files \div 2

\* lines 112-121: Python 2 integer division.
HighWaterLow(tt, ops_hw, files_hw, max_ops, max_files) ==
    IF tt = OPS_THROTTLE
    THEN ops_hw < max_ops \div 2
    ELSE files_hw < max_files \div 2

\* lines 114-116 and 119-121: both messages are formatted from the ops values.
HighWaterArgs(tt, ops_hw, files_hw, max_ops, max_files) ==
    IF tt = OPS_THROTTLE
    THEN <<"Ops in flight", ops_hw, max_ops>>
    ELSE <<"Files in flight", ops_hw, max_ops>>

\* Mutant: the last assertEqual is missing.
FirstFailedAssert_NoPurged(s) ==
    IF s.num_strays # 0 THEN <<"num_strays", s.num_strays, 0>>
    ELSE IF s.num_strays_purging # 0
    THEN <<"num_strays_purging", s.num_strays_purging, 0>>
    ELSE IF s.num_strays_delayed # 0
    THEN <<"num_strays_delayed", s.num_strays_delayed, 0>>
    ELSE IF s.num_purge_ops # 0 THEN <<"num_purge_ops", s.num_purge_ops, 0>>
    ELSE IF s.strays_created # total_inodes
    THEN <<"strays_created", s.strays_created, total_inodes>>
    ELSE <<>>

\* lines 125-130: the first assertEqual that fails, as <<field, got, wanted>>.
FirstFailedAssert(s) ==
    IF s.num_strays # 0 THEN <<"num_strays", s.num_strays, 0>>
    ELSE IF s.num_strays_purging # 0
    THEN <<"num_strays_purging", s.num_strays_purging, 0>>
    ELSE IF s.num_strays_delayed # 0
    THEN <<"num_strays_delayed", s.num_strays_delayed, 0>>
    ELSE IF s.num_purge_ops # 0 THEN <<"num_purge_ops", s.num_purge_ops, 0>>
    ELSE IF s.strays_created # total_inodes
    THEN <<"strays_created", s.strays_created, total_inodes>>
    ELSE IF s.strays_purged # total_inodes
    THEN <<"strays_purged", s.strays_purged, total_inodes>>
    ELSE <<>>

\* ------------------------------------------------------------------ Init
Init ==
    /\ pc = "idle"
    /\ throttle_type = 0
    /\ conf \in [mds_max_purge_ops : Limits, mds_max_purge_files : Limits]
    /\ mds_max_purge_ops = -1
    /\ mds_max_purge_files = -1
    /\ elapsed = -1
    /\ files_high_water = -1
    /\ ops_high_water = -1
    /\ mdc_stats = NoStats
    /\ raised = NoError
    /\ nsamples = 0
    /\ seen_files = {}
    /\ seen_ops = {}
    /\ log = <<>>
    /\ ran = {}

\* --------------------------------------------------------------- actions
\* lines 21-33, entered from test_ops_throttle / test_files_throttle.
\* The runner calls each test method once, in either order, on the same MDS;
\* a call starts with fresh locals.
test_throttling(tt) ==
    /\ pc \in {"idle", "done"}
    /\ tt \notin ran
    /\ ran' = ran \cup {tt}
    /\ throttle_type' = tt
    /\ conf' = set_conf(conf, LiftedKey(tt), Lifted)
    /\ log' = << <<"set_conf", LiftedKey(tt), Lifted>> >>
    /\ pc' = "create"
    /\ mds_max_purge_ops' = -1
    /\ mds_max_purge_files' = -1
    /\ elapsed' = -1
    /\ files_high_water' = -1
    /\ ops_high_water' = -1
    /\ mdc_stats' = NoStats
    /\ raised' = NoError
    /\ nsamples' = 0
    /\ seen_files' = {}
    /\ seen_ops' = {}

\* lines 15-16
test_ops_throttle == test_throttling(OPS_THROTTLE)

\* lines 18-19
test_files_throttle == test_throttling(FILES_THROTTLE)

\* line 52
run_python ==
    /\ pc = "create"
    /\ pc' = "rm"
    /\ log' = Append(log, <<"run_python">>)
    /\ UNCHANGED <<throttle_type, conf, locals, raised, history, ran>>

\* line 53
run_shell ==
    /\ pc = "rm"
    /\ pc' = "flush"
    /\ log' = Append(log, <<"run_shell">>)
    /\ UNCHANGED <<throttle_type, conf, locals, raised, history, ran>>

\* line 54
flush_journal ==
    /\ pc = "flush"
    /\ pc' = "get_config"
    /\ log' = Append(log, <<"flush_journal">>)
    /\ UNCHANGED <<throttle_type, conf, locals, raised, history, ran>>

\* Mutant: the limits are read as soon as the configuration is written.
get_config_Early ==
    /\ pc = "create"
    /\ mds_max_purge_ops' = conf.mds_max_purge_ops
    /\ mds_max_purge_files' = conf.mds_max_purge_files
    /\ elapsed' = 0
    /\ files_high_water' = 0
    /\ ops_high_water' = 0
    /\ pc' = "loop"
    /\ log' = log \o << <<"get_config", "mds_max_purge_ops">>,
                        <<"get_config", "mds_max_purge_files">> >>
    /\ UNCHANGED <<throttle_type, conf, mdc_stats, raised, history, ran>>

\* lines 56-66
get_config ==
    /\ pc = "get_config"
    /\ mds_max_purge_ops' = conf.mds_max_purge_ops
    /\ mds_max_purge_files' = conf.mds_max_purge_files
    /\ elapsed' = 0
    /\ files_high_water' = 0
    /\ ops_high_water' = 0
    /\ pc' = "loop"
    /\ log' = log \o << <<"get_config", "mds_max_purge_ops">>,
                        <<"get_config", "mds_max_purge_files">> >>
    /\ UNCHANGED <<throttle_type, conf, mdc_stats, raised, history, ran>>

\* Mutant: the error is recorded and the code carries on where it was.
Fail_Swallowed(type, args) ==
    /\ raised' = [type |-> type, args |-> args]
    /\ pc' = pc

\* raise: the exception leaves _test_throttling.
Fail(type, args) ==
    /\ raised' = [type |-> type, args |-> args]
    /\ pc' = "done"

\* lines 68-106: one iteration of the while loop on the snapshot s.
LoopBody(s) ==
    /\ mdc_stats' = s
    /\ nsamples' = nsamples + 1
    /\ log' = Append(log, <<"perf_dump">>)
    /\ IF TimedOut(elapsed)
       THEN /\ Fail("Timeout", <<total_inodes, s>>)
            /\ UNCHANGED <<elapsed, files_high_water, ops_high_water,
                           seen_files, seen_ops>>
       ELSE /\ seen_files' = seen_files \cup {s.num_strays_purging}
            /\ seen_ops' = seen_ops \cup {s.num_purge_ops}
            /\ files_high_water' = HighWater(files_high_water, s.num_strays_purging)
            /\ ops_high_water' = HighWater(ops_high_water, s.num_purge_ops)
            /\ IF PurgeComplete(s)
               THEN /\ pc' = "heuristic"
                    /\ UNCHANGED <<elapsed, raised>>
               ELSE IF SawMoreStrays(s)
               THEN /\ Fail("SawMoreStrays", <<s>>)
                    /\ UNCHANGED elapsed
               ELSE IF ViolatesThreshold(throttle_type, s,
                                         mds_max_purge_ops, mds_max_purge_files)
               THEN /\ Fail("ViolatesThreshold",
                            ThresholdArgs(throttle_type, s,
                                          mds_max_purge_ops, mds_max_purge_files))
                    /\ UNCHANGED elapsed
               ELSE /\ elapsed' = elapsed + 1
                    /\ UNCHANGED <<pc, raised>>
    /\ UNCHANGED <<throttle_type, conf, mds_max_purge_ops, mds_max_purge_files,
                   ran>>

\* line 68, the query answered
Poll ==
    /\ pc = "loop"
    /\ \E s \in LoopSnapshots : LoopBody(s)

\* line 68, the query failing: the exception leaves the test
PollUnavailable ==
    /\ pc = "loop"
    /\ Fail("Unavailable", <<>>)
    /\ log' = Append(log, <<"perf_dump_failed">>)
    /\ UNCHANGED <<throttle_type, conf, locals, history, ran>>

\* lines 112-121
Heuristic ==
    /\ pc = "heuristic"
    /\ IF HighWaterLow(throttle_type, ops_high_water, files_high_water,
                       mds_max_purge_ops, mds_max_purge_files)
       THEN Fail("HighWaterLow",
                 HighWaterArgs(throttle_type, ops_high_water, files_high_water,
                               mds_max_purge_ops, mds_max_purge_files))
       ELSE /\ pc' = "final"
            /\ UNCHANGED raised
    /\ log' = Append(log, <<"heuristic">>)
    /\ UNCHANGED <<throttle_type, conf, locals, history, ran>>

\* lines 124-130 on the snapshot s
SanityBody(s) ==
    /\ mdc_stats' = s
    /\ IF FirstFailedAssert(s) # <<>>
       THEN Fail("AssertionError", FirstFailedAssert(s))
       ELSE /\ pc' = "done"
            /\ UNCHANGED raised
    /\ log' = Append(log, <<"perf_dump">>)
    /\ UNCHANGED <<throttle_type, conf, mds_max_purge_ops, mds_max_purge_files,
                   elapsed, files_high_water, ops_high_water, history, ran>>

\* line 124, the query answered
SanityCheck ==
    /\ pc = "final"
    /\ \E s \in FinalSnapshots : SanityBody(s)

\* line 124, the query failing
SanityUnavailable ==
    /\ pc = "final"
    /\ Fail("Unavailable", <<>>)
    /\ log' = Append(log, <<"perf_dump_failed">>)
    /\ UNCHANGED <<throttle_type, conf, locals, history, ran>>

Next ==
    \/ test_ops_throttle
    \/ test_files_throttle
    \/ run_python
    \/ run_shell
    \/ flush_journal
    \/ get_config
    \/ Poll
    \/ PollUnavailable
    \/ Heuristic
    \/ SanityCheck
    \/ SanityUnavailable

Spec == Init /\ [][Next]_vars

\* The test is one sequential thread: whatever step is next is taken.
FairSpec == Spec /\ WF_vars(Next)

\* ================================================================ claims
\* A step in which the while loop took a snapshot (line 68 returned).
Sampled == nsamples' = nsamples + 1

\* C1 (as claimed): no run whose loop ended by break ever sampled a snapshot
\* with num_strays_purging above mds_max_purge_files, the completing sample
\* included.
C1_NoCompletedAboveFilesLimit ==
    pc = "heuristic" => \A v \in seen_files : v <= mds_max_purge_files

\* C2 (as claimed): in test_ops_throttle the loop never goes on polling after
\* a sample whose num_purge_ops is above mds_max_purge_ops: that sample makes
\* the run fail.
C2_OpsLimitChecked ==
    (throttle_type = OPS_THROTTLE /\ pc = "loop")
        => \A v \in seen_ops : v <= mds_max_purge_ops

AllSix(s) ==
    /\ s.num_strays = 0
    /\ s.num_strays_purging = 0
    /\ s.num_strays_delayed = 0
    /\ s.num_purge_ops = 0
    /\ s.strays_created = 401
    /\ s.strays_purged = 401

\* C4: the test returns without raising only if the snapshot taken after the
\* loop satisfies all six equalities, and any one of them failing in that
\* snapshot raises, although the loop completed and the heuristic passed.
C4_FinalState ==
    /\ []((pc = "done" /\ raised = NoError) => AllSix(mdc_stats))
    /\ [][(pc = "final" /\ pc' = "done" /\ raised'.type # "Unavailable") =>
            /\ raised' = NoError <=> AllSix(mdc_stats')
            /\ ~AllSix(mdc_stats') => raised'.type = "AssertionError"]_vars

C4_Witness ==
    /\ pc = "done"
    /\ raised.type = "AssertionError"
    /\ mdc_stats.num_strays = 0
    /\ mdc_stats.num_strays_purging = 0
    /\ mdc_stats.num_strays_delayed = 0
    /\ mdc_stats.num_purge_ops = 0
    /\ mdc_stats.strays_created = total_inodes
    /\ mdc_stats.strays_purged # total_inodes

\* C5: the loop always ends, after at most purge_timeout + 1 samples, and when
\* it ends by break elapsed is at most purge_timeout.
C5_Terminates ==
    /\ [](nsamples <= purge_timeout + 1)
    /\ [](pc = "heuristic" => elapsed <= purge_timeout)
    /\ (pc = "loop") ~> (pc # "loop")

C5_Witness == pc = "done" /\ nsamples = purge_timeout + 1

\* C6 (as claimed): every sampled snapshot with strays_purged above
\* total_inodes ends the run with the "Saw more strays" error.
C6_OvershootAlwaysInvariantViolation ==
    [][(Sampled /\ mdc_stats'.strays_purged > total_inodes)
          => raised'.type = "SawMoreStrays"]_vars

\* C6 (amended): every snapshot sampled before the deadline with strays_purged
\* above total_inodes ends the run with the "Saw more strays" error, on that
\* sample; at the deadline the run fails with the timeout error instead.
C6_OvershootBeforeDeadline ==
    [][(Sampled /\ mdc_stats'.strays_purged > total_inodes) =>
          /\ pc' = "done"
          /\ raised'.type = IF elapsed < purge_timeout
                            THEN "SawMoreStrays" ELSE "Timeout"]_vars

C6_Witness ==
    /\ raised.type = "SawMoreStrays"
    /\ mdc_stats.strays_purged = total_inodes + 1
    /\ nsamples = 2

C8_DeadlineFirst ==
    [][(Sampled /\ elapsed >= purge_timeout) =>
          /\ pc' = "done"
          /\ raised' = [type |-> "Timeout",
                        args |-> <<total_inodes, mdc_stats'>>]
          /\ files_high_water' = files_high_water
          /\ ops_high_water' = ops_high_water]_vars

C8_Witness ==
    /\ raised.type = "Timeout"
    /\ mdc_stats.strays_purged = total_inodes
    /\ mdc_stats.num_purge_ops > ops_high_water
    /\ mdc_stats.num_strays_purging > files_high_water

\* C9: a sample ends the loop by break exactly when it is taken before the
\* deadline and its strays_purged equals total_inodes; once the loop has
\* ended it takes no further sample.
C9_CompletedExactly ==
    /\ [][Sampled =>
            ((pc' = "heuristic" /\ raised' = NoError)
               <=> (elapsed < purge_timeout
                      /\ mdc_stats'.strays_purged = total_inodes))]_vars
    /\ [][pc # "loop" => ~Sampled]_vars

C9_Witness ==
    /\ pc = "heuristic"
    /\ nsamples = 2
    /\ elapsed = 1

\* C10: both high-water marks start at 0, never decrease, and after every
\* sample that updates them equal the largest value sampled so far (0 when
\* all were 0), the completing sample included.
C10_HighWaterIsMax ==
    /\ []((pc = "loop" /\ nsamples = 0)
             => (files_high_water = 0 /\ ops_high_water = 0))
    /\ [][pc # "done" => /\ files_high_water' >= files_high_water
                         /\ ops_high_water' >= ops_high_water]_vars
    /\ [](elapsed >= 0
             => /\ files_high_water = SetMax(seen_files \cup {0})
                /\ ops_high_water = SetMax(seen_ops \cup {0}))
    /\ [][pc' = "heuristic" =>
             /\ files_high_water' >= mdc_stats'.num_strays_purging
             /\ ops_high_water' >= mdc_stats'.num_purge_ops]_vars

C10_Witness ==
    /\ pc = "heuristic"
    /\ nsamples = 2
    /\ ops_high_water > mdc_stats.num_purge_ops
    /\ files_high_water = mdc_stats.num_strays_purging
    /\ Cardinality(seen_files) = 2

\* C11 (as claimed): the heuristic passes exactly when twice the high-water
\* mark of the counter under test is at least the limit under test, odd
\* limits included.
C11_ExactHalf ==
    [][pc = "heuristic" =>
         (pc' = "final"
            <=> IF throttle_type = OPS_THROTTLE
                THEN 2 * ops_high_water >= mds_max_purge_ops
                ELSE 2 * files_high_water >= mds_max_purge_files)]_vars

\* ------------------------------------------- the order of a call's steps
\* The positions in log of the steps called name.
Steps(name) == {i \in DOMAIN log : log[i][1] = name}

\* Every step called a comes before every step called b.
Before(a, b) == \A i \in Steps(a), j \in Steps(b) : i < j

\* A step called b was taken only after one called a.
Requires(b, a) == Steps(b) # {} => (Steps(a) # {} /\ Before(a, b))

\* The snapshots of the while loop and of line 124, answered or not.
Dumps == Steps("perf_dump") \cup Steps("perf_dump_failed")

\* C12: an error raised in the loop (timeout, overshoot, threshold, failed
\* query) ends the call on the sample that raised it: no further snapshot,
\* no heuristic, no final assertions; a high-water error ends it before the
\* final snapshot; after any error the call takes no step at all.
C12_FailuresAreFatal ==
    /\ [][raised # NoError => (pc' = "create" /\ throttle_type' # throttle_type)]_vars
    /\ [](raised # NoError => pc = "done")
    /\ [](raised.type \in {"Timeout", "SawMoreStrays", "ViolatesThreshold"}
            => /\ Steps("heuristic") = {}
               /\ log[Len(log)] = <<"perf_dump">>
               /\ Cardinality(Dumps) = nsamples)
    /\ []((raised.type = "Unavailable" /\ Steps("heuristic") = {})
            => /\ log[Len(log)] = <<"perf_dump_failed">>
               /\ Cardinality(Dumps) = nsamples + 1)
    /\ [](raised.type = "HighWaterLow"
            => /\ log[Len(log)] = <<"heuristic">>
               /\ Cardinality(Dumps) = nsamples)

C12_Witness ==
    /\ raised.type = "ViolatesThreshold"
    /\ pc = "done"
    /\ nsamples = 2
    /\ ran = {OPS_THROTTLE, FILES_THROTTLE}

\* C13: in one call the configuration write comes before the workload is
\* created; creation, delete and journal flush all come before the limits
\* are read; each limit is read once, before the first snapshot.
C13_StepOrder ==
    /\ Requires("run_python", "set_conf")
    /\ Requires("get_config", "run_python")
    /\ Requires("get_config", "run_shell")
    /\ Requires("get_config", "flush_journal")
    /\ Before("run_python", "run_shell")
    /\ Before("run_shell", "flush_journal")
    /\ Requires("perf_dump", "get_config")
    /\ Requires("perf_dump_failed", "get_config")
    /\ \A k \in {"mds_max_purge_ops", "mds_max_purge_files"} :
          Cardinality({i \in DOMAIN log : log[i] = <<"get_config", k>>})
             = IF Dumps # {} THEN 1 ELSE IF pc = "loop" THEN 1 ELSE 0

C13_Witness ==
    /\ pc = "loop"
    /\ nsamples = 1
    /\ Steps("flush_journal") # {}

\* The setting a call of throttle type tt tests.
UnderTest(tt) ==
    IF tt = 1 THEN "mds_max_purge_ops" ELSE "mds_max_purge_files"

\* The setting a call of throttle type tt does not test.
NotUnderTest(tt) ==
    IF tt = 1 THEN "mds_max_purge_files" ELSE "mds_max_purge_ops"

\* C14: a call writes the configuration once, as its first step, and writes
\* only the limit it does not test, to 100000000; the limit under test is
\* left as it was, and nothing is written once the call is under way.
C14_OneConfigWrite ==
    /\ [](pc # "idle"
            => /\ Steps("set_conf") = {1}
               /\ log[1] = <<"set_conf", NotUnderTest(throttle_type), 100000000>>)
    /\ [][pc' = "create"
            => /\ conf'[UnderTest(throttle_type')] = conf[UnderTest(throttle_type')]
               /\ conf'[NotUnderTest(throttle_type')] = 100000000]_vars
    /\ [][pc' # "create" => conf' = conf]_vars

C14_Witness ==
    /\ pc = "loop"
    /\ nsamples = 2
    /\ throttle_type = OPS_THROTTLE
    /\ conf.mds_max_purge_ops = 2
    /\ conf.mds_max_purge_files = 100000000

\* C15: from its first step on, and after it has ended in any way, a call
\* leaves the limit it does not test at 100000000; once both test methods
\* have been called on the same MDS both limits are 100000000, and the second
\* call reads 100000000 as the limit it tests.
C15_NeverRestored ==
    /\ pc # "idle" => conf[NotUnderTest(throttle_type)] = 100000000
    /\ ran = {OPS_THROTTLE, FILES_THROTTLE}
          => /\ conf.mds_max_purge_ops = 100000000
             /\ conf.mds_max_purge_files = 100000000
    /\ (ran = {OPS_THROTTLE, FILES_THROTTLE} /\ Steps("get_config") # {})
          => /\ mds_max_purge_ops = 100000000
             /\ mds_max_purge_files = 100000000

C15_Witness ==
    /\ ran = {OPS_THROTTLE, FILES_THROTTLE}
    /\ throttle_type = FILES_THROTTLE
    /\ pc = "done"
    /\ raised.type = "HighWaterLow"
    /\ mds_max_purge_files = 100000000

\* C16 (as claimed): the threshold error reports the sampled
\* num_strays_purging and mds_max_purge_files, the values that were compared,
\* in both throttle types.
C16_MessageNamesWhatWasCompared ==
    raised.type = "ViolatesThreshold"
        => /\ raised.args[2] = mdc_stats.num_strays_purging
           /\ raised.args[3] = mds_max_purge_files

====
